---------------------------- MODULE Spec2Model ----------------------------
(***************************************************************************)
(* GameArena (src/src/game-arena.js): the tile board of a match-3 game.    *)
(*                                                                         *)
(* The board is the live collection of the canvas' children (elemTiles),   *)
(* a row-major sequence of rows*cols tiles.  A tile is identified by the   *)
(* id it was created with (1..rows*cols); it carries a type and a hidden   *)
(* flag.  The user clicks tiles; the click handler keeps a selection       *)
(* (picked, target), swaps two tiles, looks for runs around both, and      *)
(* either hides the runs and lets the tiles above fall, or schedules a     *)
(* timer that swaps the selection back.                                    *)
(*                                                                         *)
(* Indices are 0-based as in the source: index i of the DOM collection is  *)
(* element i+1 of the TLA+ sequence.                                       *)
(***************************************************************************)
EXTENDS Integers, Sequences, FiniteSets, TLC

\* The board the model constructs: new GameArena({rows: 3, cols: 3}) with
\* GameTile.typeCount = 2.
NumRows == 3
NumCols == 3
TypeCount == 2

\* Number of click events a behaviour may contain.
MaxClicks == 4

VARIABLES
    rows,             \* #rows
    cols,             \* #cols
    elemTiles,        \* #elemTiles: the tiles in document order
    type,             \* tile -> GameTile.type
    hidden,           \* the tiles whose isHidden is true
    elemPickedTile,   \* #elemPickedTile (Null when unset)
    elemTargetTile,   \* #elemTargetTile (Null when unset)
    timers,           \* pending bad-swap timeouts, oldest first
    clicks,           \* click events handled so far
    last              \* what the last handler did (observation only)

vars == <<rows, cols, elemTiles, type, hidden, elemPickedTile,
          elemTargetTile, timers, clicks, last>>

Null == 0

\* A null MatchInfo / a null axis is the empty sequence: a non-null axis
\* always holds the analysed tile.
NoRun == <<>>
NoMatch == [alongX |-> NoRun, alongY |-> NoRun]
NoDirs == [left |-> <<>>, up |-> <<>>, right |-> <<>>, down |-> <<>>]

Range(s) == {s[i] : i \in 1..Len(s)}

(***************************************************************************)
(* The DOM collection                                                      *)
(***************************************************************************)
\* Array.prototype.indexOf on the live collection (0-based).
indexOf(tiles, t) == (CHOOSE i \in 1..Len(tiles) : tiles[i] = t) - 1

\* HTMLCollection.item(i) / elemTiles[i] (0-based).
item(tiles, i) == tiles[i + 1]

\* The collection without node n.
Without(tiles, n) == SelectSeq(tiles, LAMBDA x : x # n)

\* ref.after(n): n is taken out of the document and put right behind ref.
\* ref.after(ref) leaves the document as it is.
after(tiles, ref, n) ==
    IF ref = n THEN tiles
    ELSE LET rest == Without(tiles, n)
             k == indexOf(rest, ref) + 1
         IN SubSeq(rest, 1, k) \o <<n>> \o SubSeq(rest, k + 1, Len(rest))

\* ref.before(n): n is taken out of the document and put right in front of ref.
before(tiles, ref, n) ==
    IF ref = n THEN tiles
    ELSE LET rest == Without(tiles, n)
             k == indexOf(rest, ref) + 1
         IN SubSeq(rest, 1, k - 1) \o <<n>> \o SubSeq(rest, k, Len(rest))

\* tile1.compareDocumentPosition(tile2) & Node.DOCUMENT_POSITION_PRECEDING
precedes(tiles, tile2, tile1) == indexOf(tiles, tile2) < indexOf(tiles, tile1)

\* A variant of swapTiles that makes the first of the two moves only.
swapTilesFirstMoveOnly(tiles, tile1, tile2) ==
    IF precedes(tiles, tile2, tile1)
    THEN after(tiles, tile2, tile1)
    ELSE before(tiles, tile2, tile1)

\* #swapTiles
swapTiles(tiles, tile1, tile2) ==
    LET idxInitialTile1 == indexOf(tiles, tile1)
    IN IF precedes(tiles, tile2, tile1)
       THEN LET moved == after(tiles, tile2, tile1)
            IN after(moved, item(moved, idxInitialTile1), tile2)
       ELSE LET moved == before(tiles, tile2, tile1)
            IN before(moved, item(moved, idxInitialTile1), tile2)

(***************************************************************************)
(* BoardWalker: index arithmetic on the rows*cols board                    *)
(***************************************************************************)
detectEdgeLeft(i) == i % cols = 0
detectEdgeRight(i) == (i + 1) % cols = 0
detectEdgeUp(i) == i < cols
detectEdgeDown(i) == i >= (rows - 1) * cols

getIndexToLeft(i) == i - 1
getIndexToRight(i) == i + 1
getIndexToUp(i) == i - cols
getIndexToDown(i) == i + cols

Directions == {"left", "up", "right", "down"}

\* #matchSeekHelpersMap.get(direction)[0]
edgeDetectOnDirectionFn(direction, i) ==
    CASE direction = "left" -> detectEdgeLeft(i)
      [] direction = "up" -> detectEdgeUp(i)
      [] direction = "right" -> detectEdgeRight(i)
      [] direction = "down" -> detectEdgeDown(i)

\* #matchSeekHelpersMap.get(direction)[1]
indexToDirectionFn(direction, i) ==
    CASE direction = "left" -> getIndexToLeft(i)
      [] direction = "up" -> getIndexToUp(i)
      [] direction = "right" -> getIndexToRight(i)
      [] direction = "down" -> getIndexToDown(i)


(***************************************************************************)
(* Match detection                                                         *)
(***************************************************************************)
\* A variant of isInMatch that forgets the hidden flag.
isInMatchByTypeOnly(hid, testTile, pickedTileType) ==
    type[testTile] = pickedTileType

\* #isInMatch({isHidden, type}, pickedTileType)
isInMatch(hid, testTile, pickedTileType) ==
    testTile \notin hid /\ type[testTile] = pickedTileType

\* A variant of seekInDirection that walks on while the index stays inside
\* the flat sequence, instead of asking the walker for the edge.
RECURSIVE seekInDirectionFlat(_, _, _, _, _)
seekInDirectionFlat(tiles, hid, direction, pickedTileType, seekIndex) ==
    LET next == indexToDirectionFn(direction, seekIndex)
    IN IF next < 0 \/ next >= Len(tiles)
       THEN <<>>
       ELSE IF isInMatch(hid, item(tiles, next), pickedTileType)
            THEN <<item(tiles, next)>> \o
                 seekInDirectionFlat(tiles, hid, direction, pickedTileType, next)
            ELSE <<>>

\* *#seekInDirection: the tiles the generator yields, in walk order
\* (nearest first).
RECURSIVE seekInDirection(_, _, _, _, _)
seekInDirection(tiles, hid, direction, pickedTileType, seekIndex) ==
    IF edgeDetectOnDirectionFn(direction, seekIndex)
    THEN <<>>
    ELSE LET next == indexToDirectionFn(direction, seekIndex)
             testTile == item(tiles, next)
         IN IF isInMatch(hid, testTile, pickedTileType)
            THEN <<testTile>> \o
                 seekInDirection(tiles, hid, direction, pickedTileType, next)
            ELSE <<>>

\* #obtainDirectionalMatchInfo
obtainDirectionalMatchInfo(tiles, hid, tileToAnalyze) ==
    LET pickedTileType == type[tileToAnalyze]
        idxSeek == indexOf(tiles, tileToAnalyze)
    IN [dir \in Directions |->
           seekInDirection(tiles, hid, dir, pickedTileType, idxSeek)]

\* new MatchInfo(matchX, matchY)
MatchInfo(matchX, matchY) == [alongX |-> matchX, alongY |-> matchY]

\* A variant of detectMatchXY that takes a run of two for a match.
detectMatchXYOfTwo(tiles, hid, tileToAnalyze) ==
    LET mInfo == obtainDirectionalMatchInfo(tiles, hid, tileToAnalyze)
        matchX == IF Len(mInfo.left) >= 1 \/ Len(mInfo.right) >= 1
                  THEN mInfo.left \o <<tileToAnalyze>> \o mInfo.right
                  ELSE NoRun
        matchY == IF Len(mInfo.up) >= 1 \/ Len(mInfo.down) >= 1
                  THEN mInfo.up \o <<tileToAnalyze>> \o mInfo.down
                  ELSE NoRun
    IN IF Len(matchX) >= 2 \/ Len(matchY) >= 2
       THEN MatchInfo(matchX, matchY)
       ELSE NoMatch

\* #detectMatchXY
detectMatchXY(tiles, hid, tileToAnalyze) ==
    LET mInfo == obtainDirectionalMatchInfo(tiles, hid, tileToAnalyze)
        matchX == IF Len(mInfo.left) >= 1 \/ Len(mInfo.right) >= 1
                  THEN mInfo.left \o <<tileToAnalyze>> \o mInfo.right
                  ELSE NoRun
        matchY == IF Len(mInfo.up) >= 1 \/ Len(mInfo.down) >= 1
                  THEN mInfo.up \o <<tileToAnalyze>> \o mInfo.down
                  ELSE NoRun
    IN IF Len(matchX) >= 3 \/ Len(matchY) >= 3
       THEN MatchInfo(matchX, matchY)
       ELSE NoMatch

\* The tiles of a set in document order.
RECURSIVE InDocumentOrder(_, _)
InDocumentOrder(tiles, S) ==
    IF tiles = <<>> THEN <<>>
    ELSE (IF Head(tiles) \in S THEN <<Head(tiles)>> ELSE <<>>) \o
         InDocumentOrder(Tail(tiles), S)

\* new ComboMatchInfo(matchInfo1, matchInfo2).domSortedTiles: the tiles of
\* every non-null axis of both results, each once, in document order.
domSortedTiles(tiles, matchInfo1, matchInfo2) ==
    InDocumentOrder(tiles,
        Range(matchInfo1.alongX) \cup Range(matchInfo1.alongY) \cup
        Range(matchInfo2.alongX) \cup Range(matchInfo2.alongY))

\* A variant of calculateMatchByUserSelection that wants a match around
\* both tiles.
calculateMatchByUserSelectionOfBoth(tiles, hid, picked, target) ==
    LET matchInfo1 == detectMatchXY(tiles, hid, picked)
        matchInfo2 == detectMatchXY(tiles, hid, target)
    IN IF matchInfo1 # NoMatch /\ matchInfo2 # NoMatch
       THEN domSortedTiles(tiles, matchInfo1, matchInfo2)
       ELSE <<>>

\* #calculateMatchByUserSelection; a null result is the empty fixture.
calculateMatchByUserSelection(tiles, hid, picked, target) ==
    LET matchInfo1 == detectMatchXY(tiles, hid, picked)
        matchInfo2 == detectMatchXY(tiles, hid, target)
    IN IF matchInfo1 # NoMatch \/ matchInfo2 # NoMatch
       THEN domSortedTiles(tiles, matchInfo1, matchInfo2)
       ELSE <<>>

(***************************************************************************)
(* Cascade                                                                 *)
(***************************************************************************)
\* A variant of tryGetFallingTile that looks at the tile before the matched
\* one in the document instead of the tile above it.
tryGetFallingTileBefore(tiles, hid, indexMatchedTile) ==
    IF detectEdgeUp(indexMatchedTile)
    THEN Null
    ELSE LET tile == item(tiles, getIndexToLeft(indexMatchedTile))
         IN IF tile \in hid THEN Null ELSE tile

\* #tryGetFallingTile
tryGetFallingTile(tiles, hid, indexMatchedTile) ==
    IF detectEdgeUp(indexMatchedTile)
    THEN Null
    ELSE LET tile == item(tiles, getIndexToUp(indexMatchedTile))
         IN IF tile \in hid THEN Null ELSE tile

\* A variant of the pass that deletes a tile from the working set only at
\* the top edge and keeps a tile whose upper neighbour is hidden for a later
\* pass.
RECURSIVE forEachBubblingRetrying(_, _, _, _)
forEachBubblingRetrying(tiles, hid, todo, kept) ==
    IF todo = <<>>
    THEN [tiles |-> tiles, fixtureRaw |-> kept]
    ELSE LET tileBubbling == Head(todo)
             idxMatchTile == indexOf(tiles, tileBubbling)
             tileFalling == tryGetFallingTile(tiles, hid, idxMatchTile)
         IN IF tileFalling # Null
            THEN forEachBubblingRetrying(
                     swapTiles(tiles, tileBubbling, tileFalling),
                     hid, Tail(todo), Append(kept, tileBubbling))
            ELSE IF detectEdgeUp(idxMatchTile)
            THEN forEachBubblingRetrying(tiles, hid, Tail(todo), kept)
            ELSE forEachBubblingRetrying(tiles, hid, Tail(todo),
                                         Append(kept, tileBubbling))

\* fixtureRaw.forEach(...): one pass over the working set in insertion
\* order.  Only the tile being visited is ever deleted, so the pass visits
\* exactly the tiles the set held when it began.  todo are the tiles still
\* to visit, kept the visited ones that stay in the set.
RECURSIVE forEachBubbling(_, _, _, _)
forEachBubbling(tiles, hid, todo, kept) ==
    IF todo = <<>>
    THEN [tiles |-> tiles, fixtureRaw |-> kept]
    ELSE LET tileBubbling == Head(todo)
             idxMatchTile == indexOf(tiles, tileBubbling)
             tileFalling == tryGetFallingTile(tiles, hid, idxMatchTile)
         IN IF tileFalling # Null
            THEN forEachBubbling(swapTiles(tiles, tileBubbling, tileFalling),
                                 hid, Tail(todo), Append(kept, tileBubbling))
            ELSE forEachBubbling(tiles, hid, Tail(todo), kept)

\* The evaluation of the while loop is cut after this many passes, so that a
\* cascade that does not come to an end shows as done = FALSE.
PassLimit == 2 * rows + 2

\* A variant of the loop that makes one pass only.
whileBubblingOnce(tiles, hid, fixtureRaw, passes) ==
    IF fixtureRaw = <<>>
    THEN [tiles |-> tiles, passes |-> passes, done |-> TRUE]
    ELSE [tiles |-> forEachBubbling(tiles, hid, fixtureRaw, <<>>).tiles,
          passes |-> passes + 1, done |-> TRUE]

\* while (fixtureRaw.size) { fixtureRaw.forEach(...) }
RECURSIVE whileBubbling(_, _, _, _)
whileBubbling(tiles, hid, fixtureRaw, passes) ==
    IF fixtureRaw = <<>>
    THEN [tiles |-> tiles, passes |-> passes, done |-> TRUE]
    ELSE IF passes >= PassLimit
    THEN [tiles |-> tiles, passes |-> passes, done |-> FALSE]
    ELSE LET pass == forEachBubbling(tiles, hid, fixtureRaw, <<>>)
         IN whileBubbling(pass.tiles, hid, pass.fixtureRaw, passes + 1)

\* #bubbleMatchToTopEdge
bubbleMatchToTopEdge(tiles, hid, matchFixture) ==
    whileBubbling(tiles, hid, matchFixture, 0)

\* #hideMatch: the hidden tiles afterwards
hideMatch(hid, matchFixture) == hid \cup Range(matchFixture)

(***************************************************************************)
(* Selection                                                               *)
(***************************************************************************)
\* #isSecondTileOnSide; "" when the switch matches no case (undefined)
isSecondTileOnSide(tiles, picked, target) ==
    LET x == indexOf(tiles, target)
        y == indexOf(tiles, picked)
    IN CASE x - y = -1 -> "left"
         [] x - y # -1 /\ x - y = -cols -> "up"
         [] x - y # -1 /\ x - y # -cols /\ x - y = cols -> "down"
         [] x - y # -1 /\ x - y # -cols /\ x - y # cols /\ x - y = 1 -> "right"
         [] OTHER -> ""

\* A variant of manageAndValidateSelection without the test for a click on
\* a tile of the picked tile's type.
manageAndValidateSelectionOfAnyType(tiles, picked, target, clickedTile) ==
    IF picked = clickedTile
    THEN [picked |-> Null, target |-> Null, direction |-> ""]
    ELSE IF picked # Null /\ target = Null
            /\ isSecondTileOnSide(tiles, picked, clickedTile) # ""
    THEN [picked |-> picked, target |-> clickedTile,
          direction |-> isSecondTileOnSide(tiles, picked, clickedTile)]
    ELSE IF picked = Null
    THEN [picked |-> clickedTile, target |-> Null, direction |-> ""]
    ELSE [picked |-> clickedTile, target |-> Null, direction |-> ""]

\* #manageAndValidateSelection: the selection it leaves and the value it
\* returns ("" for undefined).
manageAndValidateSelection(tiles, picked, target, clickedTile) ==
    IF picked = clickedTile
    THEN \* same tile again: #resetUserSelection
         [picked |-> Null, target |-> Null, direction |-> ""]
    ELSE IF picked # Null /\ type[picked] = type[clickedTile]
    THEN \* same type: #resetUserSelectionWithNewPicked
         [picked |-> clickedTile, target |-> Null, direction |-> ""]
    ELSE IF picked # Null /\ target = Null
            /\ isSecondTileOnSide(tiles, picked, clickedTile) # ""
    THEN [picked |-> picked, target |-> clickedTile,
          direction |-> isSecondTileOnSide(tiles, picked, clickedTile)]
    ELSE IF picked = Null
    THEN [picked |-> clickedTile, target |-> Null, direction |-> ""]
    ELSE \* picked set, and target set or the clicked tile not on a side:
         \* #resetUserSelectionWithNewPicked; x is undefined here
         [picked |-> clickedTile, target |-> Null, direction |-> ""]

(***************************************************************************)
(* State machine                                                           *)
(***************************************************************************)
Tiles == 1..(rows * cols)

\* The record of a handler that did nothing worth recording.
Idle == [op |-> "init", outcome |-> "none",
         before |-> <<>>, hid |-> {}, grid |-> <<>>,
         picked |-> Null, target |-> Null,
         dirs1 |-> NoDirs, dirs2 |-> NoDirs,
         matchInfo1 |-> NoMatch, matchInfo2 |-> NoMatch,
         fixture |-> <<>>, passes |-> 0, done |-> TRUE]

\* The state the constructor leaves: createBoard gives tile k the k-th
\* place, a random type, and no tile is hidden; nothing is selected and no
\* timeout is pending.
Init ==
    /\ rows = NumRows
    /\ cols = NumCols
    /\ elemTiles = [k \in 1..(NumRows * NumCols) |-> k]
    /\ type \in [1..(NumRows * NumCols) -> 1..TypeCount]
    /\ hidden = {}
    /\ elemPickedTile = Null
    /\ elemTargetTile = Null
    /\ timers = <<>>
    /\ clicks = 0
    /\ last = Idle

\* A variant of swapUserSelectedTiles that drops the selection before it
\* throws.
swapUserSelectedTilesResetting(tiles, picked, target) ==
    IF picked = Null \/ target = Null
    THEN [threw |-> TRUE, tiles |-> tiles, picked |-> Null, target |-> Null]
    ELSE [threw |-> FALSE, tiles |-> swapTiles(tiles, picked, target),
          picked |-> picked, target |-> target]

\* #swapUserSelectedTiles: whether it throws, and the document and the
\* selection it leaves.
swapUserSelectedTiles(tiles, picked, target) ==
    IF picked = Null \/ target = Null
    THEN [threw |-> TRUE, tiles |-> tiles, picked |-> picked, target |-> target]
    ELSE [threw |-> FALSE, tiles |-> swapTiles(tiles, picked, target),
          picked |-> picked, target |-> target]

\* #handleUserSuccessSelection: selection reset, match hidden, tiles fall.
handleUserSuccessSelection(swapped, matchInfo, seen) ==
    LET hid == hideMatch(hidden, matchInfo)
        bubbled == bubbleMatchToTopEdge(swapped, hid, matchInfo)
    IN /\ elemPickedTile' = Null
       /\ elemTargetTile' = Null
       /\ hidden' = hid
       /\ elemTiles' = bubbled.tiles
       /\ timers' = timers
       /\ last' = [seen EXCEPT !.outcome = "success",
                               !.passes = bubbled.passes,
                               !.done = bubbled.done]

\* #handleUserBadSelection: the tiles stay swapped and selected, and a
\* timeout is set.  The timeout record keeps, for observation, the
\* arrangement before the swap and the two tiles swapped.
handleUserBadSelection(swapped, sel, seen) ==
    /\ elemPickedTile' = sel.picked
    /\ elemTargetTile' = sel.target
    /\ hidden' = hidden
    /\ elemTiles' = swapped
    /\ timers' = Append(timers, [before |-> elemTiles,
                                 picked |-> sel.picked,
                                 target |-> sel.target])
    /\ last' = [seen EXCEPT !.outcome = "bad"]

\* #tileClickHandler for a click on clickedTile
tileClickHandler(clickedTile) ==
    /\ clicks < MaxClicks
    /\ clicks' = clicks + 1
    /\ UNCHANGED <<rows, cols, type>>
    /\ LET sel == manageAndValidateSelection(elemTiles, elemPickedTile,
                                             elemTargetTile, clickedTile)
       IN IF sel.direction = ""
          THEN /\ elemPickedTile' = sel.picked
               /\ elemTargetTile' = sel.target
               /\ UNCHANGED <<elemTiles, hidden, timers>>
               /\ last' = [Idle EXCEPT !.op = "click", !.before = elemTiles,
                                       !.hid = hidden, !.grid = elemTiles]
          ELSE LET swapped == swapUserSelectedTiles(elemTiles, sel.picked,
                                                    sel.target).tiles
                   matchFixture == calculateMatchByUserSelection(
                                       swapped, hidden, sel.picked, sel.target)
                   seen == [Idle EXCEPT
                       !.op = "click", !.before = elemTiles,
                       !.hid = hidden, !.grid = swapped,
                       !.picked = sel.picked, !.target = sel.target,
                       !.dirs1 = obtainDirectionalMatchInfo(swapped, hidden, sel.picked),
                       !.dirs2 = obtainDirectionalMatchInfo(swapped, hidden, sel.target),
                       !.matchInfo1 = detectMatchXY(swapped, hidden, sel.picked),
                       !.matchInfo2 = detectMatchXY(swapped, hidden, sel.target),
                       !.fixture = matchFixture]
               IN IF matchFixture # <<>>
                  THEN handleUserSuccessSelection(swapped, matchFixture, seen)
                  ELSE handleUserBadSelection(swapped, sel, seen)

\* #swapUserSelectedTiles throws
swapUserSelectedTilesThrows == elemPickedTile = Null \/ elemTargetTile = Null

\* The callback of the oldest pending timeout (all timeouts have the same
\* delay, so they fire in the order they were set): swap the tiles that are
\* selected now and reset the selection.  When the swap throws, the callback
\* ends there.
badSwapTimeout ==
    /\ timers # <<>>
    /\ timers' = Tail(timers)
    /\ UNCHANGED <<rows, cols, type, hidden, clicks>>
    /\ IF swapUserSelectedTilesThrows
       THEN LET swap == swapUserSelectedTiles(elemTiles, elemPickedTile,
                                              elemTargetTile)
            IN /\ elemTiles' = swap.tiles
               /\ elemPickedTile' = swap.picked
               /\ elemTargetTile' = swap.target
               /\ last' = [Idle EXCEPT !.op = "timeout",
                                       !.outcome = IF swap.threw THEN "threw"
                                                   ELSE "reverted",
                                       !.before = Head(timers).before,
                                       !.picked = Head(timers).picked,
                                       !.target = Head(timers).target]
       ELSE /\ elemTiles' = swapUserSelectedTiles(elemTiles, elemPickedTile,
                                                  elemTargetTile).tiles
            /\ elemPickedTile' = Null
            /\ elemTargetTile' = Null
            /\ last' = [Idle EXCEPT !.op = "timeout", !.outcome = "reverted",
                                    !.before = Head(timers).before,
                                    !.picked = Head(timers).picked,
                                    !.target = Head(timers).target]

\* createTile binds the click handler to every tile and the handler tests no
\* hidden flag: a click may name any tile of the board.
Next ==
    \/ \E clickedTile \in Tiles : tileClickHandler(clickedTile)
    \/ badSwapTimeout

Spec == Init /\ [][Next]_vars

(***************************************************************************)
(* Vocabulary of the properties                                            *)
(***************************************************************************)
rowOf(i) == i \div cols
colOf(i) == i % cols
Indices == 0..(rows * cols - 1)

\* The last handler was a click that swapped two tiles.
Swapped == last.op = "click" /\ last.picked # Null
\* The last handler was a click whose swap made a match.
Resolved == last.op = "click" /\ last.outcome = "success"
\* The last handler was the callback of a bad-swap timeout.
TimedOut == last.op = "timeout"

\* The two analyses of the last swap: the analysed tile, the four walks and
\* the result of detectMatchXY.
Analyses ==
    IF Swapped
    THEN {[centre |-> last.picked, dirs |-> last.dirs1, info |-> last.matchInfo1],
          [centre |-> last.target, dirs |-> last.dirs2, info |-> last.matchInfo2]}
    ELSE {}

\* The runs the last swap's detection reported.
ReportedRuns ==
    UNION {{[centre |-> a.centre, axis |-> "x", run |-> a.info.alongX],
            [centre |-> a.centre, axis |-> "y", run |-> a.info.alongY]}
           : a \in {b \in Analyses : b.info # NoMatch}}

\* The index k steps from index i in a direction, and how many steps the
\* board allows.
StepsTo(direction, i) ==
    CASE direction = "left" -> colOf(i)
      [] direction = "right" -> cols - 1 - colOf(i)
      [] direction = "up" -> rowOf(i)
      [] direction = "down" -> rows - 1 - rowOf(i)

IndexAt(direction, i, k) ==
    CASE direction = "left" -> i - k
      [] direction = "right" -> i + k
      [] direction = "up" -> i - k * cols
      [] direction = "down" -> i + k * cols

\* Indices p and q are cardinal neighbours on the board.
Neighbours(p, q) ==
    \/ rowOf(p) = rowOf(q) /\ (colOf(p) - colOf(q) = 1 \/ colOf(q) - colOf(p) = 1)
    \/ colOf(p) = colOf(q) /\ (rowOf(p) - rowOf(q) = 1 \/ rowOf(q) - rowOf(p) = 1)

\* Index q lies on a run through index p along the axis: same line, and
\* every tile from p to q is visible and of the type of the tile at p.
OnRunThrough(grid, hid, axis, p, q) ==
    LET lo == IF p < q THEN p ELSE q
        hi == IF p < q THEN q ELSE p
        line == IF axis = "x"
                THEN {i \in lo..hi : rowOf(i) = rowOf(p)}
                ELSE {i \in lo..hi : colOf(i) = colOf(p)}
    IN /\ IF axis = "x" THEN rowOf(q) = rowOf(p) ELSE colOf(q) = colOf(p)
       /\ \A i \in line : /\ item(grid, i) \notin hid
                          /\ type[item(grid, i)] = type[item(grid, p)]

\* Length of the run of visible same-typed tiles through index p along the axis.
RunLength(grid, hid, axis, p) ==
    Cardinality({q \in Indices : OnRunThrough(grid, hid, axis, p, q)})

\* The tiles of column c from top to bottom.
Column(grid, c) == [r \in 1..rows |-> item(grid, (r - 1) * cols + c)]

(***************************************************************************)
(* C1  A swap that makes no match is undone: when the timeout set by       *)
(* handleUserBadSelection fires, the board is back in the arrangement it   *)
(* had before that swap, whatever clicks arrived in between.               *)
(***************************************************************************)
RevertRestoresArrangement == TimedOut => elemTiles = last.before

(***************************************************************************)
(* C2  Whenever picked and target are both set, they are cardinal          *)
(* neighbours on the board (same row or same column, one step apart).      *)
(***************************************************************************)
SelectionIsAdjacent ==
    (elemPickedTile # Null /\ elemTargetTile # Null)
        => Neighbours(indexOf(elemTiles, elemPickedTile),
                      indexOf(elemTiles, elemTargetTile))

(***************************************************************************)
(* C3  After a resolution (the success path of the click handler has       *)
(* returned, or a bad-swap timeout has fired) picked and target are both   *)
(* null.                                                                   *)
(***************************************************************************)
ResolutionClearsSelection ==
    (Resolved \/ TimedOut) => (elemPickedTile = Null /\ elemTargetTile = Null)

(***************************************************************************)
(* C4  Every run detectMatchXY reports consists of visible tiles of one    *)
(* type, the analysed tile included.                                       *)
(***************************************************************************)
RunsAreVisibleAndOfOneType ==
    \A r \in ReportedRuns :
        \A t \in Range(r.run) :
            t \notin last.hid /\ type[t] = type[r.centre]

(***************************************************************************)
(* C5  Every tile a resolved swap hides lies on a row or column run of at  *)
(* least three visible tiles of its type.                                  *)
(***************************************************************************)
ClearedTilesLieOnRunOfThree ==
    Resolved =>
        \A t \in Range(last.fixture) :
            LET p == indexOf(last.grid, t)
            IN \/ RunLength(last.grid, last.hid, "x", p) >= 3
               \/ RunLength(last.grid, last.hid, "y", p) >= 3

(***************************************************************************)
(* C6  The walks to the left and to the right of an analysed tile collect  *)
(* only tiles of its row, the walks up and down only tiles of its column:  *)
(* no walk crosses an edge of the board.                                   *)
(***************************************************************************)
WalksStayInLine ==
    \A a \in Analyses :
        LET p == indexOf(last.grid, a.centre)
        IN /\ \A t \in Range(a.dirs.left) \cup Range(a.dirs.right) :
                  rowOf(indexOf(last.grid, t)) = rowOf(p)
           /\ \A t \in Range(a.dirs.up) \cup Range(a.dirs.down) :
                  colOf(indexOf(last.grid, t)) = colOf(p)

\* A walk to the left began in column 0 of a row below the first, or a walk
\* to the right in the last column of a row above the last, while the tile
\* next in the flat sequence was visible and of the analysed tile's type.
WalkStoppedAtEdge ==
    \E a \in Analyses :
        LET p == indexOf(last.grid, a.centre)
        IN \/ /\ colOf(p) = 0
              /\ p > 0
              /\ isInMatch(last.hid, item(last.grid, p - 1), type[a.centre])
              /\ a.dirs.left = <<>>
           \/ /\ colOf(p) = cols - 1
              /\ p < rows * cols - 1
              /\ isInMatch(last.hid, item(last.grid, p + 1), type[a.centre])
              /\ a.dirs.right = <<>>

(***************************************************************************)
(* C7  In every walk the first hidden tile ends the run: when the tile k   *)
(* steps away in the walk's direction is hidden, the walk collected fewer  *)
(* than k tiles.                                                           *)
(***************************************************************************)
HiddenTileEndsWalk ==
    \A a \in Analyses : \A d \in Directions :
        LET p == indexOf(last.grid, a.centre)
        IN \A k \in 1..StepsTo(d, p) :
               item(last.grid, IndexAt(d, p, k)) \in last.hid
                   => Len(a.dirs[d]) < k

\* A walk met a hidden tile with a visible tile of the analysed type right
\* behind it, after collecting every tile before the hidden one.
WalkStoppedAtHiddenTile ==
    \E a \in Analyses : \E d \in Directions :
        LET p == indexOf(last.grid, a.centre)
        IN \E k \in 1..(StepsTo(d, p) - 1) :
               /\ item(last.grid, IndexAt(d, p, k)) \in last.hid
               /\ isInMatch(last.hid, item(last.grid, IndexAt(d, p, k + 1)),
                            type[a.centre])
               /\ Len(a.dirs[d]) = k - 1

(***************************************************************************)
(* C8  Every run detection reports is in ascending order of board index:   *)
(* alongX from the leftmost to the rightmost tile, alongY from the topmost *)
(* to the bottommost.                                                      *)
(***************************************************************************)
RunsAreAscending ==
    \A r \in ReportedRuns :
        \A i \in 1..Len(r.run) : \A j \in 1..Len(r.run) :
            i < j => indexOf(last.grid, r.run[i]) < indexOf(last.grid, r.run[j])

(***************************************************************************)
(* C9  The cascade comes to an end, after at most `rows` passes over the   *)
(* working set; in a pass every tile of the working set either leaves the  *)
(* set where it is or moves up by exactly one row.                         *)
(***************************************************************************)
CascadeEndsWithinRowsPasses ==
    Resolved =>
        /\ last.done
        /\ last.passes <= rows
        /\ LET pass == forEachBubbling(last.grid, hidden, last.fixture, <<>>)
           IN \A t \in Range(last.fixture) :
                  IF t \in Range(pass.fixtureRaw)
                  THEN indexOf(pass.tiles, t) = indexOf(last.grid, t) - cols
                  ELSE indexOf(pass.tiles, t) = indexOf(last.grid, t)

\* A cascade took as many passes as the board has rows: a cleared tile of
\* the bottom row rose to the top row.
CascadeTookRowsPasses ==
    /\ Resolved
    /\ last.passes = rows
    /\ \E t \in Range(last.fixture) :
           /\ rowOf(indexOf(last.grid, t)) = rows - 1
           /\ rowOf(indexOf(elemTiles, t)) = 0

(***************************************************************************)
(* C10  After the cascade, in every column that held a cleared tile the    *)
(* hidden tiles are on top and the visible tiles below them, in the order  *)
(* they had from top to bottom before the cascade.                         *)
(***************************************************************************)
ClearedColumns == {colOf(indexOf(last.grid, t)) : t \in Range(last.fixture)}

Visible(column) == SelectSeq(column, LAMBDA t : t \notin hidden)

EmptinessBubbledToTop ==
    Resolved =>
        \A c \in ClearedColumns :
            /\ \A r1 \in 1..rows : \A r2 \in 1..rows :
                   (r1 < r2 /\ Column(elemTiles, c)[r2] \in hidden)
                       => Column(elemTiles, c)[r1] \in hidden
            /\ Visible(Column(elemTiles, c)) = Visible(Column(last.grid, c))

(***************************************************************************)
(* C11  The cascade is idempotent: run again with the same cleared tiles   *)
(* on the board it has settled, it swaps nothing and leaves the board as   *)
(* it is (its one pass only empties the working set).                      *)
(***************************************************************************)
CascadeIsIdempotent ==
    Resolved =>
        LET again == bubbleMatchToTopEdge(elemTiles, hidden, last.fixture)
        IN /\ again.tiles = elemTiles
           /\ again.done
           /\ again.passes = 1

\* A cascade that moved tiles, in more than one pass.
CascadeMovedTiles ==
    /\ Resolved
    /\ last.passes >= 2
    /\ elemTiles # last.grid

(***************************************************************************)
(* C12  At most one swap is in flight: while a bad swap waits for its      *)
(* timeout, no second revert gets scheduled.                               *)
(***************************************************************************)
AtMostOneRevertPending == Len(timers) <= 1

(***************************************************************************)
(* C13  No sequence of clicks and timeouts makes swapUserSelectedTiles     *)
(* throw its 'tile swapping failed' error.                                 *)
(***************************************************************************)
SwapErrorNeverRaised == last.outcome # "threw"

(***************************************************************************)
(* C14  swapUserSelectedTiles fails fast: called with picked or target     *)
(* unset it throws, and it moves no tile and leaves the selection as it    *)
(* was.                                                                    *)
(***************************************************************************)
SwapFailsFast ==
    [][(last'.op = "timeout" /\ (elemPickedTile = Null \/ elemTargetTile = Null))
          => /\ last'.outcome = "threw"
             /\ elemTiles' = elemTiles
             /\ elemPickedTile' = elemPickedTile
             /\ elemTargetTile' = elemTargetTile]_vars

\* A timeout found exactly one of picked and target unset, and threw.
SwapThrewOnHalfSelection ==
    /\ TimedOut
    /\ last.outcome = "threw"
    /\ elemPickedTile # Null
    /\ elemTargetTile = Null

(***************************************************************************)
(* C15  The match computed for a swap is null exactly when the detections  *)
(* around picked and around target are both null.  Then nothing is hidden, *)
(* no tile falls and the revert is scheduled; otherwise the tiles of the   *)
(* combo are hidden and the swap is resolved.                              *)
(***************************************************************************)
MatchIsNullIffBothDetectionsAre ==
    Swapped =>
        /\ (last.fixture = <<>>)
               <=> (last.matchInfo1 = NoMatch /\ last.matchInfo2 = NoMatch)
        /\ last.fixture = <<>> =>
               /\ last.outcome = "bad"
               /\ hidden = last.hid
               /\ elemTiles = last.grid
               /\ timers # <<>>
               /\ timers[Len(timers)].picked = last.picked
               /\ timers[Len(timers)].target = last.target
        /\ last.fixture # <<>> =>
               /\ last.outcome = "success"
               /\ Range(last.fixture) =
                      UNION {Range(r.run) : r \in ReportedRuns}
               /\ hidden = last.hid \cup Range(last.fixture)

\* A swap that made a match around one of its two tiles only.
MatchAroundOneTileOnly ==
    /\ Resolved
    /\ (last.matchInfo1 = NoMatch) # (last.matchInfo2 = NoMatch)

(***************************************************************************)
(* The scenario of the 7x7 board: the constructor's default size, row 3    *)
(* (indices 21..27) holding the types A A A B C D E, written 1 1 1 2 3 4   *)
(* 5.  The cells above and below indices 23 and 24 hold A or B, every      *)
(* other cell holds F (6).  The user clicks the tiles at indices 23 and    *)
(* 24.                                                                     *)
(***************************************************************************)
DefaultRows == 7
DefaultCols == 7

ScenarioRow == <<1, 1, 1, 2, 3, 4, 5>>
ScenarioFreeCells == {9, 10, 16, 17, 30, 31, 37, 38}
ScenarioFreeTypes == {1, 2}

InitScenario ==
    /\ rows = DefaultRows
    /\ cols = DefaultCols
    /\ elemTiles = [k \in 1..(DefaultRows * DefaultCols) |-> k]
    /\ \E free \in [ScenarioFreeCells -> ScenarioFreeTypes] :
           type = [k \in 1..(DefaultRows * DefaultCols) |->
                      IF (k - 1) \div DefaultCols = 3
                      THEN ScenarioRow[((k - 1) % DefaultCols) + 1]
                      ELSE IF (k - 1) \in ScenarioFreeCells
                      THEN free[k - 1]
                      ELSE 6]
    /\ hidden = {}
    /\ elemPickedTile = Null
    /\ elemTargetTile = Null
    /\ timers = <<>>
    /\ clicks = 0
    /\ last = Idle

NextScenario ==
    \/ \E clickedTile \in {item(elemTiles, 23), item(elemTiles, 24)} :
           tileClickHandler(clickedTile)
    \/ badSwapTimeout

SpecScenario == InitScenario /\ [][NextScenario]_vars

\* The last handler swapped, on the board as constructed, the tile of index
\* 24 (picked) with the tile of index 23 (target).
ScenarioSwapped ==
    /\ Swapped
    /\ last.before = [k \in 1..(rows * cols) |-> k]
    /\ indexOf(last.before, last.picked) = 24
    /\ indexOf(last.before, last.target) = 23

\* The types a grid holds at the indices of row 3.
TypesOfRow3(grid) == [c \in 1..cols |-> type[item(grid, 3 * cols + c - 1)]]

\* The analysis around the tile a swapped grid holds at an index.
AnalysisAt(i) == CHOOSE a \in Analyses : a.centre = item(last.grid, i)

(***************************************************************************)
(* C16 as stated: after swapping index 24 (B) with index 23 (A), indices   *)
(* 21..24 all hold A, detection around index 24 returns the run of         *)
(* indices 21, 22, 23, 24 along X, and the swap is accepted.               *)
(***************************************************************************)
ScenarioSwapMakesRunOfFour ==
    ScenarioSwapped =>
        /\ \A i \in 21..24 : type[item(last.grid, i)] = 1
        /\ [k \in 1..Len(AnalysisAt(24).info.alongX) |->
                indexOf(last.grid, AnalysisAt(24).info.alongX[k])]
               = <<21, 22, 23, 24>>
        /\ last.outcome = "success"

(***************************************************************************)
(* C16 amended: the swap exchanges the B of index 24 and the A of index    *)
(* 23, so row 3 holds A A B A C D E; neither detection finds a tile of the *)
(* analysed type to its left or right, so it reports no run along X; and   *)
(* the swap is accepted exactly when a column run of three or more passes  *)
(* through index 23 or index 24.                                           *)
(***************************************************************************)
ScenarioSwapBreaksRowRun ==
    ScenarioSwapped =>
        /\ TypesOfRow3(last.before) = ScenarioRow
        /\ TypesOfRow3(last.grid) = <<1, 1, 2, 1, 3, 4, 5>>
        /\ \A a \in Analyses :
               /\ a.dirs.left = <<>>
               /\ a.dirs.right = <<>>
               /\ a.info.alongX = NoRun
        /\ (last.outcome = "success")
               <=> \/ RunLength(last.grid, last.hid, "y", 23) >= 3
                   \/ RunLength(last.grid, last.hid, "y", 24) >= 3
        /\ (last.outcome = "bad")
               <=> /\ RunLength(last.grid, last.hid, "y", 23) < 3
                   /\ RunLength(last.grid, last.hid, "y", 24) < 3

\* The scenario's swap was accepted, for a column run through index 24.
ScenarioSwapAccepted ==
    /\ ScenarioSwapped
    /\ last.outcome = "success"
    /\ Len(AnalysisAt(24).info.alongY) >= 3

\* The states of the while loop of the last cascade at the head of each
\* pass: the document and the working set, the first before the first pass.
RECURSIVE LoopStates(_, _, _, _)
LoopStates(tiles, hid, fixtureRaw, passes) ==
    IF fixtureRaw = <<>> \/ passes >= PassLimit
    THEN <<[tiles |-> tiles, fixtureRaw |-> fixtureRaw]>>
    ELSE LET pass == forEachBubbling(tiles, hid, fixtureRaw, <<>>)
         IN <<[tiles |-> tiles, fixtureRaw |-> fixtureRaw]>> \o
            LoopStates(pass.tiles, hid, pass.fixtureRaw, passes + 1)

CascadeStates == LoopStates(last.grid, hidden, last.fixture, 0)

\* In the pass from loop state s to loop state s2, tile t of the working
\* set stayed where it was, below the top row and right below a hidden tile.
BlockedIn(s, s2, t) ==
    LET p == indexOf(s.tiles, t)
    IN /\ ~detectEdgeUp(p)
       /\ indexOf(s2.tiles, t) = p
       /\ item(s2.tiles, getIndexToUp(p)) \in hidden

(***************************************************************************)
(* C17 as stated: in every pass of the cascade a cleared tile below the    *)
(* top row whose upper neighbour is hidden is skipped and stays in the     *)
(* working set; a tile leaves the working set only at the top edge.        *)
(***************************************************************************)
BlockedTileStaysInWorkingSet ==
    Resolved =>
        \A n \in 1..(Len(CascadeStates) - 1) :
            LET s == CascadeStates[n]
                s2 == CascadeStates[n + 1]
            IN \A t \in Range(s.fixtureRaw) :
                   /\ BlockedIn(s, s2, t) => t \in Range(s2.fixtureRaw)
                   /\ t \notin Range(s2.fixtureRaw)
                          => detectEdgeUp(indexOf(s.tiles, t))

(***************************************************************************)
(* C17 amended: in every pass a cleared tile leaves the working set        *)
(* exactly when it is at the top edge or right below a hidden tile, and it *)
(* stays where it is; no tile is kept for a retry.  Every cleared tile     *)
(* ends at the top edge or right below a hidden tile.                      *)
(***************************************************************************)
BlockedTileLeavesWorkingSet ==
    Resolved =>
        /\ \A n \in 1..(Len(CascadeStates) - 1) :
               LET s == CascadeStates[n]
                   s2 == CascadeStates[n + 1]
               IN \A t \in Range(s.fixtureRaw) :
                      t \notin Range(s2.fixtureRaw)
                          <=> \/ detectEdgeUp(indexOf(s.tiles, t))
                              \/ BlockedIn(s, s2, t)
        /\ CascadeStates[Len(CascadeStates)].fixtureRaw = <<>>
        /\ CascadeStates[Len(CascadeStates)].tiles = elemTiles
        /\ \A t \in Range(last.fixture) :
               \/ detectEdgeUp(indexOf(elemTiles, t))
               \/ item(elemTiles, getIndexToUp(indexOf(elemTiles, t))) \in hidden

\* A pass after the first deleted from the working set a tile below the top
\* row whose upper neighbour was hidden.
BlockedTileWasDeleted ==
    /\ Resolved
    /\ \E n \in 2..(Len(CascadeStates) - 1) :
           \E t \in Range(CascadeStates[n].fixtureRaw) :
               /\ BlockedIn(CascadeStates[n], CascadeStates[n + 1], t)
               /\ t \notin Range(CascadeStates[n + 1].fixtureRaw)

(***************************************************************************)
(* #swapTiles on its own: a document of MaxTiles tiles in one row, and     *)
(* swapTiles applied to any two distinct tiles of it, again and again, so  *)
(* that every arrangement and every pair of places is met.                 *)
(***************************************************************************)
MaxTiles == 5

InitSwap ==
    /\ rows = 1
    /\ cols = MaxTiles
    /\ elemTiles = [k \in 1..MaxTiles |-> k]
    /\ type = [k \in 1..MaxTiles |-> 1]
    /\ hidden = {}
    /\ elemPickedTile = Null
    /\ elemTargetTile = Null
    /\ timers = <<>>
    /\ clicks = 0
    /\ last = Idle

\* this.#swapTiles(tile1, tile2)
swapTilesCall(tile1, tile2) ==
    /\ tile1 # tile2
    /\ elemTiles' = swapTiles(elemTiles, tile1, tile2)
    /\ last' = [Idle EXCEPT !.op = "swap", !.before = elemTiles,
                            !.grid = swapTiles(elemTiles, tile1, tile2),
                            !.picked = tile1, !.target = tile2]
    /\ UNCHANGED <<rows, cols, type, hidden, elemPickedTile, elemTargetTile,
                   timers, clicks>>

NextSwap == \E tile1 \in Tiles : \E tile2 \in Tiles : swapTilesCall(tile1, tile2)

SpecSwap == InitSwap /\ [][NextSwap]_vars

(***************************************************************************)
(* C18  swapTiles(tile1, tile2) is an exact transposition: for any two     *)
(* distinct tiles, adjacent or not and in either document order, tile1     *)
(* ends at the former index of tile2, tile2 at the former index of tile1,  *)
(* every other tile keeps its index; and applying it a second time gives   *)
(* back the sequence it started from.                                      *)
(***************************************************************************)
SwapIsTransposition ==
    last.op = "swap" =>
        /\ Len(elemTiles) = Len(last.before)
        /\ indexOf(elemTiles, last.picked) = indexOf(last.before, last.target)
        /\ indexOf(elemTiles, last.target) = indexOf(last.before, last.picked)
        /\ \A t \in Range(last.before) \ {last.picked, last.target} :
               indexOf(elemTiles, t) = indexOf(last.before, t)
        /\ swapTiles(elemTiles, last.picked, last.target) = last.before

\* swapTiles was applied to two tiles that were not neighbours in the
\* document, on an arrangement other than the constructor's, the second
\* tile preceding the first.
SwapOfDistantTiles ==
    /\ last.op = "swap"
    /\ last.before # [k \in 1..Len(last.before) |-> k]
    /\ indexOf(last.before, last.target) + 2 < indexOf(last.before, last.picked)

\* The columns of the tiles a fixture holds, on a grid.
ColumnsOf(grid, fixture) == {colOf(indexOf(grid, t)) : t \in Range(fixture)}

\* From the grid a swap left to the grid after its cascade, tiles moved
\* only up or down inside the columns of the cleared tiles.
MovedInClearedColumnsOnly(grid, fixture, settled) ==
    /\ Len(settled) = Len(grid)
    /\ Range(settled) = Range(grid)
    /\ \A t \in Range(grid) :
           colOf(indexOf(settled, t)) = colOf(indexOf(grid, t))
    /\ \A c \in (0..(cols - 1)) \ ColumnsOf(grid, fixture) :
           Column(settled, c) = Column(grid, c)

(***************************************************************************)
(* C19  The cascade moves tiles vertically only, inside columns that hold  *)
(* a cleared tile: every tile keeps its column, a column without a cleared *)
(* tile is unchanged, the grid after the cascade is a permutation of the   *)
(* grid before it, and the cascade changes no tile's type and hides or     *)
(* shows no tile (the hidden tiles are those hidden before and the tiles   *)
(* of the match).                                                          *)
(***************************************************************************)
CascadeMovesWithinClearedColumns ==
    [][last'.outcome = "success" =>
          /\ MovedInClearedColumnsOnly(last'.grid, last'.fixture, elemTiles')
          /\ type' = type
          /\ hidden' = hideMatch(hidden, last'.fixture)]_vars

\* A cascade moved tiles while some column held no cleared tile.
CascadeLeftColumnsAlone ==
    /\ Resolved
    /\ elemTiles # last.grid
    /\ ColumnsOf(last.grid, last.fixture) # 0..(cols - 1)
    /\ \E t \in Tiles \ hidden :
           rowOf(indexOf(elemTiles, t)) > rowOf(indexOf(last.grid, t))

\* The tiles of the runs a detection result reports.
TilesOf(matchInfo) == Range(matchInfo.alongX) \cup Range(matchInfo.alongY)

(***************************************************************************)
(* C20  In every reachable state, when target is set then picked is set,   *)
(* picked and target are two tiles, and they are of different types; and   *)
(* the runs detected around the two tiles of a swap share no tile.         *)
(***************************************************************************)
SelectionIsOfTwoTypes ==
    /\ elemTargetTile # Null =>
           /\ elemPickedTile # Null
           /\ elemPickedTile # elemTargetTile
           /\ type[elemPickedTile] # type[elemTargetTile]
    /\ Swapped =>
           /\ last.picked # last.target
           /\ type[last.picked] # type[last.target]
           /\ TilesOf(last.matchInfo1) \cap TilesOf(last.matchInfo2) = {}

\* A swap made a match around each of its two tiles.
MatchAroundBothTiles ==
    /\ Swapped
    /\ last.matchInfo1 # NoMatch
    /\ last.matchInfo2 # NoMatch

=============================================================================
